---- MODULE Spec2Model ----
(***************************************************************************)
(* Model of the profile-centric revision of simple-filament-manager        *)
(* (src/src/index.ts lines 319-1091, schema src/unnamed/part_007).         *)
(*                                                                         *)
(* State: the two PostgreSQL tables (profiles, filaments), their serial    *)
(* sequences, the database clock behind created_at's DEFAULT now(), and    *)
(* the last HTTP exchange (which handler ran, on what, with what answer),  *)
(* and whether the database can be reached.  One action per route handler. *)
(* Requests are served one at a time.                                      *)
(*                                                                         *)
(* Numbers: weights are integers (the columns are integer columns and the  *)
(* form values of the model are integer numerals); density and diameter    *)
(* are kept in hundredths (1.24 is 124).  Math.round of a ratio is         *)
(* computed exactly on rationals.                                          *)
(***************************************************************************)
EXTENDS Integers, Sequences, FiniteSets, TLC

\* ------------------------------------------------------------------ bounds
\* Highest value the profiles_id_seq / filaments_id_seq sequences hand out.
MaxProfileId == 2
MaxFilamentId == 1
\* The same for filaments_id_seq in the weights specification.
MaxWeighed == 1
\* The same for filaments_id_seq in the listing specification.
MaxListed == 3
\* The same for filaments_id_seq in the round trip specification.
MaxRoundTrip == 2
\* Number of requests that can be in service at the same time.
MaxInflight == 2
\* Highest value of the database clock.
MaxClock == 1

\* ------------------------------------------------------- form values (text)
\* formData.get(...) of a field that was not submitted
NULL == "<null>"

\* Numerals the model submits, with their value.
NumeralValue(s) ==
  CASE s = "0" -> 0
    [] s = "1" -> 1
    [] s = "2" -> 2
    [] s = "3" -> 3
    [] s = "4" -> 4
    [] s = "100" -> 100
    [] s = "200" -> 200
    [] s = "620" -> 620
    [] s = "720" -> 720
    [] s = "900" -> 900
    [] s = "1000" -> 1000
    [] s = "-50" -> 0 - 50
    [] OTHER -> 0

Numerals == {"0", "1", "2", "3", "4", "100", "200", "620", "720", "900", "1000", "-50"}

\* JavaScript Number(x) of a form value: null and "" give 0, a numeral its
\* value, anything else NaN.
Number(s) ==
  IF s = NULL \/ s = "" THEN [nan |-> FALSE, val |-> 0]
  ELSE IF s \in Numerals THEN [nan |-> FALSE, val |-> NumeralValue(s)]
  ELSE [nan |-> TRUE, val |-> 0]

\* JavaScript `x || d` on a number: NaN and 0 are falsy.
OrElse(x, d) == IF x.nan \/ x.val = 0 THEN d ELSE x.val

\* Faulty variant: only a field that was not submitted counts as missing
NullOnly(s) == s = NULL

\* JavaScript !s on a string-or-null form value
Falsy(s) == s = NULL \/ s = ""

isNaN(x) == x.nan

\* parseFloat(x) of a form value, in hundredths: null, "" and text give NaN.
parseFloat(s) ==
  IF s \in Numerals THEN [nan |-> FALSE, val |-> 100 * NumeralValue(s)]
  ELSE [nan |-> TRUE, val |-> 0]

\* ------------------------------------------------------------ request inputs
\* Route parameter :id as it appears in the path.
IdParams == {"1", "2", "x"}

VendorIn == {NULL, "Acme", "Bambu"}
MaterialIn == {NULL, "PLA"}
DensityIn == {""}
DiameterIn == {""}

ProfileForms ==
  [vendor : VendorIn, material : MaterialIn, density : DensityIn, diameter : DiameterIn]

ProfileForm(v, m, d, a) ==
  [vendor |-> v, material |-> m, density |-> d, diameter |-> a]

\* Forms of the profile forms specification: a form with all four fields
\* ("Acme", "PLA", 2, 3), and that form with one field at a time missing,
\* empty, zero, negative or not a number.
WideProfileForms ==
  { ProfileForm(v, "PLA", "2", "3") : v \in {NULL, "", "Acme"} }
  \cup { ProfileForm("Acme", m, "2", "3") : m \in {NULL, ""} }
  \cup { ProfileForm("Acme", "PLA", d, "3") : d \in {NULL, "", "0", "x", "-50"} }
  \cup { ProfileForm("Acme", "PLA", "2", a) : a \in {NULL, "0", "-50"} }

FilamentForm(n, p, w, s, r) ==
  [name |-> n, profile_id |-> p, weight_g |-> w, spool_weight_g |-> s, remaining_g |-> r,
   color_hex |-> NULL, price_eur |-> "", print_temp_min |-> "", print_temp_max |-> ""]

\* Forms of the inventory specification: one that passes the handlers'
\* validation for each profile id, and one for each way of failing it.
\* The create form posts remaining_g as a hidden field of value 0.
NewForms ==
  { FilamentForm("Spool", p, "1000", "200", "0") : p \in {"1", "2"} }
  \cup { FilamentForm("", "1", "1000", "200", "0"),
         FilamentForm("Spool", "", "1000", "200", "0"),
         FilamentForm("Spool", "x", "1000", "200", "0") }

EditForms ==
  { FilamentForm("Spool", p, "1000", "200", "620") : p \in {"1", "2"} }
  \cup { FilamentForm("", "1", "1000", "200", "620"),
         FilamentForm("Spool", "", "1000", "200", "620"),
         FilamentForm("Spool", "x", "1000", "200", "620") }

\* Forms of the filament forms specification: every combination of a name and
\* a profile_id that is missing, empty, zero, not a number, or the id of a
\* profile that is, or is not, stored.
NameIn == {NULL, "", "Spool"}
ProfileIdIn == {NULL, "", "0", "x", "1", "2"}

WideNewForms ==
  { FilamentForm(n, p, "1000", "200", "0") : n \in NameIn, p \in ProfileIdIn }

WideEditForms ==
  { FilamentForm(n, p, "1000", "200", "620") : n \in NameIn, p \in ProfileIdIn }

\* Forms of the round trip specification: a form with every field filled in,
\* one with other values on the other profile, and one with the optional
\* fields left out.
FullFilamentForm(n, p, c, e, w, s, tmin, tmax) ==
  [name |-> n, profile_id |-> p, weight_g |-> w, spool_weight_g |-> s, remaining_g |-> "0",
   color_hex |-> c, price_eur |-> e, print_temp_min |-> tmin, print_temp_max |-> tmax]

RoundTripForms ==
  { FullFilamentForm("Spool", "1", "#ff6600", "2", "1000", "200", "100", "200"),
    FullFilamentForm("Spare", "2", "#00ff00", "3", "720", "100", "200", "620"),
    FilamentForm("Spool", "1", "1000", "200", "0") }

\* Forms of the weights specification: every combination of the weights, on
\* one profile.
WeightIn == {"720", "100"}
SpoolWeightIn == {"200", "100"}
RemainingIn == {NULL, "200", "620", "-50"}

WeighedNewForms ==
  { FilamentForm("Spool", "1", w, s, "0") : w \in WeightIn, s \in SpoolWeightIn }

WeighedEditForms ==
  { FilamentForm("Spool", "1", w, s, r) :
      w \in WeightIn, s \in SpoolWeightIn, r \in RemainingIn }

\* ------------------------------------------------------------------- state
VARIABLES
  profiles,        \* rows of table profiles
  filaments,       \* rows of table filaments
  nextProfileId,   \* next value of the serial sequence of profiles.id
  nextFilamentId,  \* next value of the serial sequence of filaments.id
  clock,           \* latest value now() has returned
  last,            \* the last request served and the status of its response
  view,            \* the listing rendered by the last response, if it was GET /
                   \* or GET /profiles
  dbUp,            \* whether the database answers the statements sent to it
  inflight         \* the requests being served side by side, by connection

vars == <<profiles, filaments, nextProfileId, nextFilamentId, clock, last, view, dbUp,
          inflight>>

\* What `last` records of a request: the handler, the row id it addressed or
\* inserted under (0: none, the sequences start at 1), the form as submitted,
\* the status of the response, the text of the response (the pieces it is
\* put together from) and the error.message the database driver threw while
\* the request was served, which the handlers write to the console.
NoForm == [none |-> TRUE]

\* error.message of the errors the driver throws
NoError == ""
ConnectionLost == "connect ECONNREFUSED"
ForeignKeyViolation == "violates foreign key constraint"
NotNullViolation == "violates not-null constraint"

Exchange(op, id, status, form, text) ==
  [op |-> op, id |-> id, status |-> status, form |-> form,
   cause |-> NoError, text |-> <<text>>]

\* catch (error) { return c.text(prefix + error.message, 500) }
Caught(op, id, form, prefix, cause) ==
  [op |-> op, id |-> id, status |-> 500, form |-> form,
   cause |-> cause, text |-> <<prefix, cause>>]

\* An error no handler catches: the framework answers 500 with a fixed text.
Uncaught(op, id, form, cause) ==
  [op |-> op, id |-> id, status |-> 500, form |-> form,
   cause |-> cause, text |-> <<"Internal Server Error">>]

\* A request in service: its handler, the id of its route, its form, and how
\* far the handler has come: "idle" (no request), the statement it is about
\* to send ("insert", "update", "count", "delete"), or "done" with the status
\* of its response.
Slots == 1 .. MaxInflight
Idle == [pc |-> "idle", op |-> "none", id |-> 0, form |-> NoForm, status |-> 0]
Request(pc, op, id, form) == [pc |-> pc, op |-> op, id |-> id, form |-> form, status |-> 0]
Done(response) ==
  [pc |-> "done", op |-> response.op, id |-> response.id, form |-> response.form,
   status |-> response.status]

ProfileIds == {p.id : p \in profiles}
FilamentIds == {f.id : f \in filaments}

Init ==
  /\ profiles = {}
  /\ filaments = {}
  /\ nextProfileId = 1
  /\ nextFilamentId = 1
  /\ clock = 0
  /\ last = Exchange("none", 0, 0, NoForm, "")
  /\ view = <<>>
  /\ dbUp = TRUE
  /\ inflight = [s \in Slots |-> Idle]

\* ------------------------------------------------------ the database schema
DefaultDensity == 124
DefaultDiameter == 175

\* NOT NULL of profiles.vendor and profiles.material
ProfileNotNull(row) == row.vendor # NULL /\ row.material # NULL

\* Faulty variant: the column declared without its reference
ProfileIdNoFk(pid) == TRUE

\* filaments.profile_id REFERENCES profiles(id): a filament row may be written
\* only with the id of a stored profile (ON DELETE / ON UPDATE NO ACTION).
ProfileIdFk(pid) == \E p \in profiles : p.id = pid

\* Faulty variant: nothing keeps a referenced profile from being deleted
ProfileIdNoFkOnDelete(id) == TRUE

\* ... and a profile row may be deleted only while no filament references it.
ProfileIdFkOnDelete(id) == ~ \E f \in filaments : f.profile_id = id

\* Faulty variant: the count taken over filaments.id instead of filaments.profile_id
filamentCountById(id) == Cardinality({f \in filaments : f.id = id})

\* SELECT count(filaments.id) FROM filaments WHERE profile_id = id
filamentCount(id) == Cardinality({f \in filaments : f.profile_id = id})

\* Faulty variant: the delete without its WHERE clause
DeleteAllProfiles(id) == {}

\* DELETE FROM profiles WHERE id = id
DeleteFromProfiles(id) == {p \in profiles : p.id # id}

\* ---------------------------------------------------------------- profiles
\* Faulty variant: density and diameter parsed without their defaults
parseProfileFormDataNoDefault(form) ==
  [vendor |-> form.vendor,
   material |-> form.material,
   density |-> 100 * OrElse(Number(form.density), 0),
   diameter |-> 100 * OrElse(Number(form.diameter), 0)]

parseProfileFormData(form) ==
  [vendor |-> form.vendor,
   material |-> form.material,
   density |-> IF OrElse(Number(form.density), 0) = 0 THEN DefaultDensity
               ELSE 100 * Number(form.density).val,
   diameter |-> IF OrElse(Number(form.diameter), 0) = 0 THEN DefaultDiameter
                ELSE 100 * Number(form.diameter).val]

\* POST /profiles/new
CreateProfile(form) ==
  LET profileData == parseProfileFormData(form) IN
  /\ view' = <<>>
  /\ UNCHANGED <<filaments, nextFilamentId, clock, dbUp, inflight>>
  /\ IF Falsy(profileData.vendor) \/ Falsy(profileData.material)
        \/ profileData.density = 0 \/ profileData.diameter = 0
     THEN /\ last' = Exchange("createProfile", 0, 400, form,
                              "Vendor, Material, Density, and Diameter are required.")
          /\ UNCHANGED <<profiles, nextProfileId>>
     ELSE IF ~ dbUp
     THEN /\ last' = Caught("createProfile", 0, form, "Error saving: ", ConnectionLost)
          /\ UNCHANGED <<profiles, nextProfileId>>
     ELSE /\ nextProfileId <= MaxProfileId
          /\ profiles' = profiles \cup
               {[id |-> nextProfileId, vendor |-> profileData.vendor,
                 material |-> profileData.material, density |-> profileData.density,
                 diameter |-> profileData.diameter]}
          /\ nextProfileId' = nextProfileId + 1
          /\ last' = Exchange("createProfile", nextProfileId, 302, form, "/profiles")

\* POST /profiles/:id/update.  The handler has no try/catch: a statement the
\* database rejects reaches the framework's error handler, which answers 500.
UpdateProfile(param, form) ==
  LET id == Number(param)
      profileData == parseProfileFormData(form)
      hit == {p \in profiles : p.id = id.val}
      set(p) == [id |-> p.id, vendor |-> profileData.vendor,
                 material |-> profileData.material, density |-> profileData.density,
                 diameter |-> profileData.diameter]
  IN
  /\ view' = <<>>
  /\ UNCHANGED <<filaments, nextProfileId, nextFilamentId, clock, dbUp, inflight>>
  /\ IF isNaN(id)
     THEN /\ last' = Exchange("updateProfile", 0, 400, form, "Invalid ID")
          /\ UNCHANGED profiles
     ELSE IF ~ dbUp
     THEN /\ last' = Uncaught("updateProfile", id.val, form, ConnectionLost)
          /\ UNCHANGED profiles
     ELSE IF \E p \in hit : ~ ProfileNotNull(set(p))
     THEN /\ last' = Uncaught("updateProfile", id.val, form, NotNullViolation)
          /\ UNCHANGED profiles
     ELSE /\ profiles' = (profiles \ hit) \cup {set(p) : p \in hit}
          /\ last' = Exchange("updateProfile", id.val, 302, form, "/profiles")

\* POST /profiles/:id/delete
DeleteProfile(param) ==
  LET id == Number(param) IN
  /\ view' = <<>>
  /\ UNCHANGED <<filaments, nextProfileId, nextFilamentId, clock, dbUp, inflight>>
  /\ IF isNaN(id)
     THEN /\ last' = Exchange("deleteProfile", 0, 400, NoForm, "Invalid ID")
          /\ UNCHANGED profiles
     ELSE IF ~ dbUp
     THEN /\ last' = Caught("deleteProfile", id.val, NoForm,
                            "Error deleting profile: ", ConnectionLost)
          /\ UNCHANGED profiles
     ELSE IF filamentCount(id.val) > 0
     THEN /\ last' = Exchange("deleteProfile", id.val, 400, NoForm,
               "This profile cannot be deleted because it is used by filaments.")
          /\ UNCHANGED profiles
     ELSE IF ~ ProfileIdFkOnDelete(id.val)
     THEN /\ last' = Caught("deleteProfile", id.val, NoForm,
                            "Error deleting profile: ", ForeignKeyViolation)
          /\ UNCHANGED profiles
     ELSE /\ profiles' = DeleteFromProfiles(id.val)
          /\ last' = Exchange("deleteProfile", id.val, 302, NoForm, "/profiles")

\* --------------------------------------------------------------- filaments
\* Faulty variant: the difference taken without the clamp
MaxFirst(a, b) == a

\* Math.max
Max(a, b) == IF a >= b THEN a ELSE b
Min(a, b) == IF a <= b THEN a ELSE b

\* a number or null, as `Number(x) || null` and `parseFloat(x) || null` give
OrNull(x) == IF x.nan \/ x.val = 0 THEN [null |-> TRUE, val |-> 0]
             ELSE [null |-> FALSE, val |-> x.val]

\* JavaScript `x ?? d`
Coalesce(x, d) == IF x.null THEN d ELSE x.val

\* Faulty variant: the edit recomputes like the create does
remainingRecomputed(form, isEdit, weight_g, spool_weight_g) ==
  IF weight_g >= spool_weight_g THEN weight_g - spool_weight_g ELSE 0

\* `let remaining_g` of parseFilamentFormData: computed from the weights for a
\* new filament, read from the form for an edit.
remainingOf(form, isEdit, weight_g, spool_weight_g) ==
  IF ~ isEdit THEN Max(weight_g - spool_weight_g, 0)
  ELSE OrElse(Number(form.remaining_g), 0)

parseFilamentFormData(form, isEdit) ==
  LET weight_g == OrElse(Number(form.weight_g), 0)
      spool_weight_g == OrElse(Number(form.spool_weight_g), 0)
      remaining_g == remainingOf(form, isEdit, weight_g, spool_weight_g)
  IN [name |-> form.name,
      profile_id |-> OrElse(Number(form.profile_id), 0),
      color_hex |-> form.color_hex,
      weight_g |-> weight_g,
      spool_weight_g |-> spool_weight_g,
      remaining_g |-> remaining_g,
      print_temp_min |-> OrNull(Number(form.print_temp_min)),
      print_temp_max |-> OrNull(Number(form.print_temp_max)),
      price_eur |-> OrNull(parseFloat(form.price_eur))]

\* Faulty variant: the color of the form is dropped
FilamentValuesNoColor(filamentData) ==
  [name |-> filamentData.name,
   profile_id |-> filamentData.profile_id,
   color_hex |-> "#000000",
   weight_g |-> filamentData.weight_g,
   spool_weight_g |-> filamentData.spool_weight_g,
   remaining_g |-> filamentData.remaining_g,
   print_temp_min |-> Coalesce(filamentData.print_temp_min, 0),
   print_temp_max |-> Coalesce(filamentData.print_temp_max, 0),
   price_eur |-> Coalesce(filamentData.price_eur, 0)]

\* The column values both filament handlers hand to the database.
FilamentValues(filamentData) ==
  [name |-> filamentData.name,
   profile_id |-> filamentData.profile_id,
   color_hex |-> IF filamentData.color_hex = NULL THEN "#000000" ELSE filamentData.color_hex,
   weight_g |-> filamentData.weight_g,
   spool_weight_g |-> filamentData.spool_weight_g,
   remaining_g |-> filamentData.remaining_g,
   print_temp_min |-> Coalesce(filamentData.print_temp_min, 0),
   print_temp_max |-> Coalesce(filamentData.print_temp_max, 0),
   price_eur |-> Coalesce(filamentData.price_eur, 0)]

\* Faulty variant: a row written under an id that the sequence has already
\* handed out (an update) is stamped with the time of the write
FilamentRowRestamped(id, created_at, v) ==
  [id |-> id,
   created_at |-> IF id < nextFilamentId THEN Min(clock + 1, MaxClock) ELSE created_at,
   name |-> v.name, profile_id |-> v.profile_id, color_hex |-> v.color_hex,
   weight_g |-> v.weight_g, spool_weight_g |-> v.spool_weight_g,
   remaining_g |-> v.remaining_g, print_temp_min |-> v.print_temp_min,
   print_temp_max |-> v.print_temp_max, price_eur |-> v.price_eur]

\* Faulty variant: the id is not taken from the sequence
FilamentRowFirstId(id, created_at, v) ==
  [id |-> 1, created_at |-> created_at,
   name |-> v.name, profile_id |-> v.profile_id, color_hex |-> v.color_hex,
   weight_g |-> v.weight_g, spool_weight_g |-> v.spool_weight_g,
   remaining_g |-> v.remaining_g, print_temp_min |-> v.print_temp_min,
   print_temp_max |-> v.print_temp_max, price_eur |-> v.price_eur]

FilamentRow(id, created_at, v) ==
  [id |-> id, created_at |-> created_at,
   name |-> v.name, profile_id |-> v.profile_id, color_hex |-> v.color_hex,
   weight_g |-> v.weight_g, spool_weight_g |-> v.spool_weight_g,
   remaining_g |-> v.remaining_g, print_temp_min |-> v.print_temp_min,
   print_temp_max |-> v.print_temp_max, price_eur |-> v.price_eur]

\* POST /filaments/new, while the sequence of filaments.id has handed out
\* fewer than maxId values.  The sequence hands out its value before the
\* foreign key is checked, so a rejected insert still uses up an id.
CreateFilamentWithin(form, maxId) ==
  LET filamentData == parseFilamentFormData(form, FALSE) IN
  /\ view' = <<>>
  /\ UNCHANGED <<profiles, nextProfileId, dbUp, inflight>>
  /\ IF Falsy(filamentData.name) \/ filamentData.profile_id = 0
     THEN /\ last' = Exchange("createFilament", 0, 400, form, "Name and Spool are required.")
          /\ UNCHANGED <<filaments, nextFilamentId, clock>>
     ELSE IF ~ dbUp
     THEN /\ last' = Caught("createFilament", 0, form, "Error saving: ", ConnectionLost)
          /\ UNCHANGED <<filaments, nextFilamentId, clock>>
     ELSE /\ nextFilamentId <= maxId
          /\ nextFilamentId' = nextFilamentId + 1
          /\ IF ~ ProfileIdFk(filamentData.profile_id)
             THEN /\ last' = Caught("createFilament", nextFilamentId, form,
                                    "Error saving: ", ForeignKeyViolation)
                  /\ UNCHANGED <<filaments, clock>>
             ELSE /\ \E now \in clock .. Min(clock + 1, MaxClock) :
                       /\ clock' = now
                       /\ filaments' = filaments \cup
                            {FilamentRow(nextFilamentId, now, FilamentValues(filamentData))}
                  /\ last' = Exchange("createFilament", nextFilamentId, 302, form, "/")

CreateFilament(form) == CreateFilamentWithin(form, MaxFilamentId)

\* POST /filaments/:id/update
UpdateFilament(param, form) ==
  LET id == Number(param)
      filamentData == parseFilamentFormData(form, TRUE)
      \* computed by the handler and never used
      remaining_g == Max(filamentData.weight_g - filamentData.spool_weight_g, 0)
      hit == {f \in filaments : f.id = id.val}
  IN
  /\ view' = <<>>
  /\ UNCHANGED <<profiles, nextProfileId, nextFilamentId, clock, dbUp, inflight>>
  /\ IF isNaN(id)
     THEN /\ last' = Exchange("updateFilament", 0, 400, form, "Invalid ID")
          /\ UNCHANGED filaments
     ELSE IF Falsy(filamentData.name) \/ filamentData.profile_id = 0
     THEN /\ last' = Exchange("updateFilament", id.val, 400, form,
                              "Name and Profile are required.")
          /\ UNCHANGED filaments
     ELSE IF ~ dbUp
     THEN /\ last' = Caught("updateFilament", id.val, form, "Error saving: ", ConnectionLost)
          /\ UNCHANGED filaments
     ELSE IF hit # {} /\ ~ ProfileIdFk(filamentData.profile_id)
     THEN /\ last' = Caught("updateFilament", id.val, form,
                            "Error saving: ", ForeignKeyViolation)
          /\ UNCHANGED filaments
     ELSE /\ filaments' = (filaments \ hit) \cup
               {FilamentRow(f.id, f.created_at, FilamentValues(filamentData)) : f \in hit}
          /\ last' = Exchange("updateFilament", id.val, 302, form, "/")

\* Faulty variant: the delete without its WHERE clause
DeleteAllFilaments(id) == {}

\* DELETE FROM filaments WHERE id = id
DeleteFromFilaments(id) == {f \in filaments : f.id # id}

\* POST /filaments/:id/delete
DeleteFilament(param) ==
  LET id == Number(param) IN
  /\ view' = <<>>
  /\ UNCHANGED <<profiles, nextProfileId, nextFilamentId, clock, dbUp, inflight>>
  /\ IF isNaN(id)
     THEN /\ last' = Exchange("deleteFilament", 0, 400, NoForm, "Invalid ID")
          /\ UNCHANGED filaments
     ELSE IF ~ dbUp
     THEN /\ last' = Caught("deleteFilament", id.val, NoForm,
                            "Error deleting: ", ConnectionLost)
          /\ UNCHANGED filaments
     ELSE /\ filaments' = DeleteFromFilaments(id.val)
          /\ last' = Exchange("deleteFilament", id.val, 302, NoForm, "/")

\* ------------------------------------------------ requests served side by side
\* The handlers are async functions: one runs until it awaits the answer to a
\* statement it has sent to the database, and other requests are served in
\* the meantime.  Each statement is executed by the database in one piece.
\* A request that arrives forgets the requests that were done by then, so the
\* requests on record at one time were in service at the same time.

\* The request arrives on a free connection.
Accept(s, request) ==
  /\ inflight[s].pc \in {"idle", "done"}
  /\ inflight' = [t \in Slots |-> IF t = s THEN request
                                   ELSE IF inflight[t].pc = "done" THEN Idle
                                   ELSE inflight[t]]

\* The handler answers.
Respond(s, response) ==
  /\ last' = response
  /\ view' = <<>>
  /\ inflight' = [inflight EXCEPT ![s] = Done(response)]

\* Faulty variant: the UPDATE writes the name and leaves the other columns
UpdateFilamentsSetNameOnly(id, v) ==
  {IF f.id = id THEN [f EXCEPT !.name = v.name] ELSE f : f \in filaments}

\* UPDATE filaments SET ... WHERE id = id
UpdateFilamentsSet(id, v) ==
  {IF f.id = id THEN FilamentRow(f.id, f.created_at, v) ELSE f : f \in filaments}

\* UPDATE profiles SET ... WHERE id = id
UpdateProfilesSet(id, profileData) ==
  {IF p.id = id
   THEN [id |-> p.id, vendor |-> profileData.vendor, material |-> profileData.material,
         density |-> profileData.density, diameter |-> profileData.diameter]
   ELSE p : p \in profiles}

\* POST /filaments/:id/update, up to the await of the UPDATE
BeginUpdateFilament(s, param, form) ==
  LET id == Number(param)
      filamentData == parseFilamentFormData(form, TRUE)
  IN
  /\ inflight[s].pc \in {"idle", "done"}
  /\ UNCHANGED <<profiles, filaments, nextProfileId, nextFilamentId, clock, dbUp>>
  /\ IF isNaN(id)
     THEN /\ Accept(s, Done(Exchange("updateFilament", 0, 400, form, "Invalid ID")))
          /\ last' = Exchange("updateFilament", 0, 400, form, "Invalid ID")
          /\ view' = <<>>
     ELSE IF Falsy(filamentData.name) \/ filamentData.profile_id = 0
     THEN /\ Accept(s, Done(Exchange("updateFilament", id.val, 400, form,
                                     "Name and Profile are required.")))
          /\ last' = Exchange("updateFilament", id.val, 400, form,
                              "Name and Profile are required.")
          /\ view' = <<>>
     ELSE /\ Accept(s, Request("update", "updateFilament", id.val, form))
          /\ UNCHANGED <<last, view>>

\* ... and from the UPDATE to the response
ApplyUpdateFilament(s) ==
  LET r == inflight[s]
      filamentData == parseFilamentFormData(r.form, TRUE)
      hit == {f \in filaments : f.id = r.id}
  IN
  /\ r.pc = "update"
  /\ r.op = "updateFilament"
  /\ UNCHANGED <<profiles, nextProfileId, nextFilamentId, clock, dbUp>>
  /\ IF ~ dbUp
     THEN /\ Respond(s, Caught("updateFilament", r.id, r.form, "Error saving: ",
                               ConnectionLost))
          /\ UNCHANGED filaments
     ELSE IF hit # {} /\ ~ ProfileIdFk(filamentData.profile_id)
     THEN /\ Respond(s, Caught("updateFilament", r.id, r.form, "Error saving: ",
                               ForeignKeyViolation))
          /\ UNCHANGED filaments
     ELSE /\ filaments' = UpdateFilamentsSet(r.id, FilamentValues(filamentData))
          /\ Respond(s, Exchange("updateFilament", r.id, 302, r.form, "/"))

\* POST /profiles/:id/update, up to the await of the UPDATE
BeginUpdateProfile(s, param, form) ==
  LET id == Number(param) IN
  /\ inflight[s].pc \in {"idle", "done"}
  /\ UNCHANGED <<profiles, filaments, nextProfileId, nextFilamentId, clock, dbUp>>
  /\ IF isNaN(id)
     THEN /\ Accept(s, Done(Exchange("updateProfile", 0, 400, form, "Invalid ID")))
          /\ last' = Exchange("updateProfile", 0, 400, form, "Invalid ID")
          /\ view' = <<>>
     ELSE /\ Accept(s, Request("update", "updateProfile", id.val, form))
          /\ UNCHANGED <<last, view>>

\* ... and from the UPDATE to the response
ApplyUpdateProfile(s) ==
  LET r == inflight[s]
      profileData == parseProfileFormData(r.form)
      hit == {p \in profiles : p.id = r.id}
  IN
  /\ r.pc = "update"
  /\ r.op = "updateProfile"
  /\ UNCHANGED <<filaments, nextProfileId, nextFilamentId, clock, dbUp>>
  /\ IF ~ dbUp
     THEN /\ Respond(s, Uncaught("updateProfile", r.id, r.form, ConnectionLost))
          /\ UNCHANGED profiles
     ELSE IF hit # {} /\ ~ ProfileNotNull(profileData)
     THEN /\ Respond(s, Uncaught("updateProfile", r.id, r.form, NotNullViolation))
          /\ UNCHANGED profiles
     ELSE /\ profiles' = UpdateProfilesSet(r.id, profileData)
          /\ Respond(s, Exchange("updateProfile", r.id, 302, r.form, "/profiles"))

\* POST /filaments/new, up to the await of the INSERT
BeginCreateFilament(s, form) ==
  LET filamentData == parseFilamentFormData(form, FALSE) IN
  /\ inflight[s].pc \in {"idle", "done"}
  /\ UNCHANGED <<profiles, filaments, nextProfileId, nextFilamentId, clock, dbUp>>
  /\ IF Falsy(filamentData.name) \/ filamentData.profile_id = 0
     THEN /\ Accept(s, Done(Exchange("createFilament", 0, 400, form,
                                     "Name and Spool are required.")))
          /\ last' = Exchange("createFilament", 0, 400, form, "Name and Spool are required.")
          /\ view' = <<>>
     ELSE /\ Accept(s, Request("insert", "createFilament", 0, form))
          /\ UNCHANGED <<last, view>>

\* ... and from the INSERT to the response
ApplyCreateFilament(s) ==
  LET r == inflight[s]
      filamentData == parseFilamentFormData(r.form, FALSE)
  IN
  /\ r.pc = "insert"
  /\ r.op = "createFilament"
  /\ UNCHANGED <<profiles, nextProfileId, dbUp>>
  /\ IF ~ dbUp
     THEN /\ Respond(s, Caught("createFilament", 0, r.form, "Error saving: ", ConnectionLost))
          /\ UNCHANGED <<filaments, nextFilamentId, clock>>
     ELSE /\ nextFilamentId <= MaxFilamentId
          /\ nextFilamentId' = nextFilamentId + 1
          /\ IF ~ ProfileIdFk(filamentData.profile_id)
             THEN /\ Respond(s, Caught("createFilament", nextFilamentId, r.form,
                                       "Error saving: ", ForeignKeyViolation))
                  /\ UNCHANGED <<filaments, clock>>
             ELSE /\ \E now \in clock .. Min(clock + 1, MaxClock) :
                       /\ clock' = now
                       /\ filaments' = filaments \cup
                            {FilamentRow(nextFilamentId, now, FilamentValues(filamentData))}
                  /\ Respond(s, Exchange("createFilament", nextFilamentId, 302, r.form, "/"))

\* POST /profiles/:id/delete, up to the await of the count
BeginDeleteProfile(s, param) ==
  LET id == Number(param) IN
  /\ inflight[s].pc \in {"idle", "done"}
  /\ UNCHANGED <<profiles, filaments, nextProfileId, nextFilamentId, clock, dbUp>>
  /\ IF isNaN(id)
     THEN /\ Accept(s, Done(Exchange("deleteProfile", 0, 400, NoForm, "Invalid ID")))
          /\ last' = Exchange("deleteProfile", 0, 400, NoForm, "Invalid ID")
          /\ view' = <<>>
     ELSE /\ Accept(s, Request("count", "deleteProfile", id.val, NoForm))
          /\ UNCHANGED <<last, view>>

\* ... from the count to the await of the DELETE
CountDeleteProfile(s) ==
  LET r == inflight[s] IN
  /\ r.pc = "count"
  /\ r.op = "deleteProfile"
  /\ UNCHANGED <<profiles, filaments, nextProfileId, nextFilamentId, clock, dbUp>>
  /\ IF ~ dbUp
     THEN Respond(s, Caught("deleteProfile", r.id, NoForm, "Error deleting profile: ",
                            ConnectionLost))
     ELSE IF filamentCount(r.id) > 0
     THEN Respond(s, Exchange("deleteProfile", r.id, 400, NoForm,
            "This profile cannot be deleted because it is used by filaments."))
     ELSE /\ inflight' = [inflight EXCEPT ![s] = Request("delete", "deleteProfile", r.id, NoForm)]
          /\ UNCHANGED <<last, view>>

\* ... and from the DELETE to the response
ApplyDeleteProfile(s) ==
  LET r == inflight[s] IN
  /\ r.pc = "delete"
  /\ r.op = "deleteProfile"
  /\ UNCHANGED <<filaments, nextProfileId, nextFilamentId, clock, dbUp>>
  /\ IF ~ dbUp
     THEN /\ Respond(s, Caught("deleteProfile", r.id, NoForm, "Error deleting profile: ",
                               ConnectionLost))
          /\ UNCHANGED profiles
     ELSE IF ~ ProfileIdFkOnDelete(r.id)
     THEN /\ Respond(s, Caught("deleteProfile", r.id, NoForm, "Error deleting profile: ",
                               ForeignKeyViolation))
          /\ UNCHANGED profiles
     ELSE /\ profiles' = DeleteFromProfiles(r.id)
          /\ Respond(s, Exchange("deleteProfile", r.id, 302, NoForm, "/profiles"))

\* ----------------------------------------------------------------- listing
\* A displayed percentage: an integer, or JavaScript's Infinity.
Finite(n) == [inf |-> FALSE, val |-> n]
Infinity == [inf |-> TRUE, val |-> 0]

\* Math.round((r / d) * 100) for r > 0: the integer n with n <= x + 1/2 < n + 1.
RoundPercent(r, d) ==
  IF d = 0 THEN Infinity
  ELSE IF d > 0 THEN Finite((200 * r + d) \div (2 * d))
  ELSE Finite(((0 - 200) * r + (0 - d)) \div (2 * (0 - d)))

percentage(f) ==
  IF f.remaining_g > 0 THEN RoundPercent(f.remaining_g, f.weight_g - f.spool_weight_g)
  ELSE Finite(0)

\* filaments INNER JOIN profiles ON filaments.profile_id = profiles.id
Joined(profileId) ==
  { [filament |-> f, profile |-> p] : f \in filaments, p \in profiles } \cap
  { j \in [filament : filaments, profile : profiles] :
      /\ j.filament.profile_id = j.profile.id
      /\ (profileId # 0 => j.filament.profile_id = profileId) }

\* Faulty variant: ORDER BY filaments.created_at, oldest first
SelectOldestFirst(profileId) ==
  LET rows == Joined(profileId)
      n == Cardinality(rows)
  IN { seq \in [1 .. n -> rows] :
         /\ \A i, j \in 1 .. n : i # j => seq[i] # seq[j]
         /\ \A i, j \in 1 .. n :
              i < j => seq[i].filament.created_at <= seq[j].filament.created_at }

\* The SELECT of fetchFilaments.  ORDER BY filaments.created_at DESC: rows of
\* equal created_at come in any order.
SelectFilaments(profileId) ==
  LET rows == Joined(profileId)
      n == Cardinality(rows)
  IN { seq \in [1 .. n -> rows] :
         /\ \A i, j \in 1 .. n : i # j => seq[i] # seq[j]
         /\ \A i, j \in 1 .. n :
              i < j => seq[i].filament.created_at >= seq[j].filament.created_at }

\* Faulty variant: the catch block answers with what was read before the
\* connection was lost
fetchFilamentsStale(profileId) == SelectFilaments(profileId)

\* fetchFilaments: the rows of the SELECT, and [] when the SELECT throws.
fetchFilaments(profileId) ==
  IF dbUp THEN SelectFilaments(profileId) ELSE {<<>>}

ProfileParams == {"", "1", "x"}

\* ?profile=... of the listing specification: none, zero, the ids of the
\* profiles, and text.
ListParams == {"", "0", "1", "2", "x"}

\* GET /?profile=...
Index(profileParam) ==
  LET profileId == Number(profileParam)
      arg == IF isNaN(profileId) THEN 0 ELSE profileId.val
  IN
  /\ \E result \in fetchFilaments(arg) :
       view' = [i \in 1 .. Len(result) |->
                  [filament |-> result[i].filament, profile |-> result[i].profile,
                   percentage |-> percentage(result[i].filament)]]
  /\ last' = [Exchange("listFilaments", arg, 200, NoForm, "html")
                EXCEPT !.cause = IF dbUp THEN NoError ELSE ConnectionLost]
  /\ UNCHANGED <<profiles, filaments, nextProfileId, nextFilamentId, clock, dbUp, inflight>>

\* ------------------------------------------------------- listing of profiles
\* profiles LEFT JOIN filaments ON profiles.id = filaments.profile_id, the
\* rows of one profile: one for each of its filaments, or one without a
\* filament (all columns of filaments null).
LeftJoined(p) ==
  LET matches == {f \in filaments : f.profile_id = p.id} IN
  IF matches = {} THEN {[profiles |-> p, isNull |-> TRUE, filaments |-> 0]}
  ELSE {[profiles |-> p, isNull |-> FALSE, filaments |-> f.id] : f \in matches}

\* Faulty variant: count(*), which counts the row without a filament
countRows(rows) == Cardinality(rows)

\* count(filaments.id): the rows of the group whose filaments.id is not null
countFilamentsId(rows) == Cardinality({r \in rows : ~ r.isNull})

\* ORDER BY profiles.vendor: the place of a vendor among the vendors of the
\* model.
VendorRank(v) ==
  CASE v = "" -> 0
    [] v = "Acme" -> 1
    [] v = "Bambu" -> 2
    [] OTHER -> 3

\* The SELECT of GET /profiles: one row for each profile (GROUP BY
\* profiles.id) with its count, ordered by vendor; rows of equal vendor come
\* in any order.
profilesWithCount ==
  LET rows == {[profiles |-> p, filamentCount |-> countFilamentsId(LeftJoined(p))] :
                 p \in profiles}
      n == Cardinality(rows)
  IN { seq \in [1 .. n -> rows] :
         /\ \A i, j \in 1 .. n : i # j => seq[i] # seq[j]
         /\ \A i, j \in 1 .. n :
              i < j => VendorRank(seq[i].profiles.vendor) <= VendorRank(seq[j].profiles.vendor) }

\* GET /profiles.  The handler has no try/catch.
ProfilesIndex ==
  /\ UNCHANGED <<profiles, filaments, nextProfileId, nextFilamentId, clock, dbUp, inflight>>
  /\ IF ~ dbUp
     THEN /\ last' = Uncaught("listProfiles", 0, NoForm, ConnectionLost)
          /\ view' = <<>>
     ELSE /\ \E result \in profilesWithCount :
               view' = [i \in 1 .. Len(result) |->
                          [profiles |-> result[i].profiles,
                           filamentCount |-> result[i].filamentCount,
                           deleteButton |-> result[i].filamentCount = 0]]
          /\ last' = Exchange("listProfiles", 0, 200, NoForm, "html")

\* ------------------------------------------------------------ specification
Next ==
  \/ \E form \in ProfileForms : CreateProfile(form)
  \/ \E param \in IdParams, form \in ProfileForms : UpdateProfile(param, form)
  \/ \E param \in IdParams : DeleteProfile(param)
  \/ \E form \in NewForms : CreateFilament(form)
  \/ \E param \in IdParams, form \in EditForms : UpdateFilament(param, form)
  \/ \E param \in IdParams : DeleteFilament(param)
  \/ \E profileParam \in ProfileParams : Index(profileParam)

Spec == Init /\ [][Next]_vars

\* The weights specification: one profile, filaments created and edited over
\* every combination of the submitted weights, and the listing.
NextWeights ==
  \/ /\ nextProfileId = 1
     /\ CreateProfile([vendor |-> "Acme", material |-> "PLA", density |-> "", diameter |-> ""])
  \/ \E form \in WeighedNewForms : nextFilamentId <= MaxWeighed /\ CreateFilament(form)
  \/ \E param \in IdParams, form \in WeighedEditForms : UpdateFilament(param, form)
  \/ Index("")

SpecWeights == Init /\ [][NextWeights]_vars

\* The database server stops answering, and answers again.
Disconnect ==
  /\ dbUp
  /\ dbUp' = FALSE
  /\ UNCHANGED <<profiles, filaments, nextProfileId, nextFilamentId, clock, last, view, inflight>>

Reconnect ==
  /\ ~ dbUp
  /\ dbUp' = TRUE
  /\ UNCHANGED <<profiles, filaments, nextProfileId, nextFilamentId, clock, last, view, inflight>>

\* The one profile of the specifications that vary something else.
AcmePla == [vendor |-> "Acme", material |-> "PLA", density |-> "", diameter |-> ""]

\* The profile forms specification: profiles created and edited over the
\* profile forms.
NextProfileForms ==
  \/ \E form \in WideProfileForms : CreateProfile(form)
  \/ \E param \in IdParams, form \in WideProfileForms : UpdateProfile(param, form)

SpecProfileForms == Init /\ [][NextProfileForms]_vars

\* The filament forms specification: one profile, filaments created and
\* edited over every combination of name and profile_id, with and without a
\* database to talk to.
NextFilamentForms ==
  \/ nextProfileId = 1 /\ CreateProfile(AcmePla)
  \/ \E form \in WideNewForms : CreateFilament(form)
  \/ \E param \in IdParams, form \in WideEditForms : UpdateFilament(param, form)
  \/ Disconnect
  \/ Reconnect

SpecFilamentForms == Init /\ [][NextFilamentForms]_vars

\* The required fields specification: one profile and its filaments, edited
\* with forms that have, and that lack, each of the required fields.
RequiredProfileForms ==
  { ProfileForm(v, m, "2", "3") : v \in {NULL, "Acme"}, m \in {NULL, "PLA"} }

RequiredEditForms ==
  { FilamentForm(n, p, "1000", "200", "620") : n \in {NULL, "Spool"}, p \in {NULL, "1"} }

NextRequired ==
  \/ nextProfileId = 1 /\ CreateProfile(AcmePla)
  \/ CreateFilament(FilamentForm("Spool", "1", "1000", "200", "0"))
  \/ \E param \in IdParams, form \in RequiredProfileForms : UpdateProfile(param, form)
  \/ \E param \in IdParams, form \in RequiredEditForms : UpdateFilament(param, form)
  \/ Disconnect
  \/ Reconnect

SpecRequired == Init /\ [][NextRequired]_vars

\* The listing specification: profiles, filaments created on them at equal
\* and at different times, and the listing with and without a filter.
NextList ==
  \/ CreateProfile(AcmePla)
  \/ \E p \in {"1", "2"} :
       CreateFilamentWithin(FilamentForm("Spool", p, "1000", "200", "0"), MaxListed)
  \/ \E profileParam \in ListParams : Index(profileParam)

SpecList == Init /\ [][NextList]_vars

\* The round trip specification: profiles, filaments created from the round
\* trip forms, and the listing.
NextRoundTrip ==
  \/ CreateProfile(AcmePla)
  \/ \E form \in RoundTripForms : CreateFilamentWithin(form, MaxRoundTrip)
  \/ Index("")

SpecRoundTrip == Init /\ [][NextRoundTrip]_vars

\* Forms of the concurrent edits specification: two edits of a filament, and
\* two of a profile, that differ in every field they can.
EditA == FilamentForm("Spool", "1", "1000", "200", "620")
EditB == FilamentForm("Spare", "1", "720", "100", "200")
ProfileEditA == ProfileForm("Acme", "PLA", "2", "3")
ProfileEditB == ProfileForm("Bambu", "PETG", "3", "2")

\* The concurrent edits specification: profile 1 and filament 1 and, once
\* they are stored, edits of them that are served side by side.
NextConcurrentEdits ==
  \/ nextProfileId = 1 /\ CreateProfile(AcmePla)
  \/ CreateFilament(FilamentForm("Spool", "1", "1000", "200", "0"))
  \/ \E s \in Slots, form \in {EditA, EditB} :
       1 \in FilamentIds /\ BeginUpdateFilament(s, "1", form)
  \/ \E s \in Slots : ApplyUpdateFilament(s)
  \/ \E s \in Slots, form \in {ProfileEditA, ProfileEditB} :
       1 \in ProfileIds /\ BeginUpdateProfile(s, "1", form)
  \/ \E s \in Slots : ApplyUpdateProfile(s)

SpecConcurrentEdits == Init /\ [][NextConcurrentEdits]_vars

\* The created weights specification: one profile, filaments created over
\* every combination of the weights and never edited, and the listing.
NextCreatedWeights ==
  \/ nextProfileId = 1 /\ CreateProfile(AcmePla)
  \/ \E form \in WeighedNewForms : CreateFilamentWithin(form, MaxRoundTrip)
  \/ \E profileParam \in ProfileParams : Index(profileParam)

SpecCreatedWeights == Init /\ [][NextCreatedWeights]_vars

\* The profile listing specification: two vendors' profiles, filaments
\* created on them and deleted, and the listing of the profiles.
NextProfilesList ==
  \/ \E v \in {"Acme", "Bambu"} : CreateProfile(ProfileForm(v, "PLA", "", ""))
  \/ \E p \in {"1", "2"} :
       CreateFilamentWithin(FilamentForm("Spool", p, "1000", "200", "0"), MaxRoundTrip)
  \/ \E param \in IdParams : DeleteFilament(param)
  \/ ProfilesIndex

SpecProfilesList == Init /\ [][NextProfilesList]_vars

\* The concurrent delete specification: profiles, and requests served side
\* by side that delete a stored profile, create a filament on profile 1
\* and, once filament 1 is stored, move it to profile 2.
NextConcurrentDelete ==
  \/ CreateProfile(AcmePla)
  \/ \E s \in Slots : BeginCreateFilament(s, FilamentForm("Spool", "1", "1000", "200", "0"))
  \/ \E s \in Slots : ApplyCreateFilament(s)
  \/ \E s \in Slots :
       1 \in FilamentIds /\
       BeginUpdateFilament(s, "1", FilamentForm("Spool", "2", "1000", "200", "620"))
  \/ \E s \in Slots : ApplyUpdateFilament(s)
  \/ \E s \in Slots, param \in {"1", "2"} :
       NumeralValue(param) \in ProfileIds /\ BeginDeleteProfile(s, param)
  \/ \E s \in Slots : CountDeleteProfile(s)
  \/ \E s \in Slots : ApplyDeleteProfile(s)

SpecConcurrentDelete == Init /\ [][NextConcurrentDelete]_vars

\* The outage specification: every handler, on forms that pass validation,
\* with a database that stops answering and answers again.
OutageProfileForms == {AcmePla, ProfileForm(NULL, "PLA", "", "")}

NextOutage ==
  \/ CreateProfile(AcmePla)
  \/ \E param \in IdParams, form \in OutageProfileForms : UpdateProfile(param, form)
  \/ \E param \in IdParams : DeleteProfile(param)
  \/ \E p \in {"1", "2"} : CreateFilament(FilamentForm("Spool", p, "1000", "200", "0"))
  \/ \E param \in IdParams, p \in {"1", "2"} :
       UpdateFilament(param, FilamentForm("Spool", p, "1000", "200", "620"))
  \/ \E param \in IdParams : DeleteFilament(param)
  \/ \E profileParam \in ProfileParams : Index(profileParam)
  \/ Disconnect
  \/ Reconnect

SpecOutage == Init /\ [][NextOutage]_vars

\* ================================================================== claims
\* ------------------------------------------------- referential integrity
\* The edit form specification: one profile and one spool of 720 g on a 100 g
\* reel, edited with every pairing of the submitted weights with a remaining
\* weight that is missing, not a number, zero, below or above the net weight.
RemainingEditIn == {NULL, "x", "0", "200", "900"}

RemainingEditForms ==
  { FilamentForm("Spool", "1", w, s, r) :
      w \in WeightIn, s \in SpoolWeightIn, r \in RemainingEditIn }

NextEditRemaining ==
  \/ CreateProfile(AcmePla)
  \/ CreateFilament(FilamentForm("Spool", "1", "720", "100", "0"))
  \/ \E form \in RemainingEditForms : UpdateFilament("1", form)

SpecEditRemaining == Init /\ [][NextEditRemaining]_vars

\* The writes specification: two of each kind of row at most, and every write
\* of the profile and filament routes on them.
WriteParams == {"1", "2"}

NextWrites ==
  \/ \E form \in {ProfileEditA, ProfileEditB} : CreateProfile(form)
  \/ \E param \in WriteParams, form \in {ProfileEditA, ProfileEditB} :
       UpdateProfile(param, form)
  \/ \E form \in {EditA, EditB} : CreateFilamentWithin(form, MaxRoundTrip)
  \/ \E param \in WriteParams, form \in {EditA, EditB} : UpdateFilament(param, form)
  \/ \E param \in WriteParams : DeleteFilament(param)

SpecWrites == Init /\ [][NextWrites]_vars

\* C1: in every reachable state, every stored filament's profile_id is the id
\* of a stored profile.
C1_FilamentReferencesStoredProfile ==
  \A f \in filaments : \E p \in profiles : p.id = f.profile_id

\* C1 witness: a filament is stored, and an edit that pointed it at the id of
\* a profile that has been deleted was turned down.
C1_Witness ==
  /\ last.op = "updateFilament"
  /\ last.status = 500
  /\ \E f \in filaments : f.id = last.id
  /\ last.form.profile_id = "1"
  /\ ProfileIds = {2}

\* C2: deleteProfile(id) while a stored filament has profile_id = id answers
\* 400 (the profile is in use) and leaves both tables as they were.
C2_DeleteProfileInUseFails ==
  [][ (/\ last'.op = "deleteProfile"
       /\ last'.id > 0
       /\ \E f \in filaments : f.profile_id = last'.id)
      => (/\ last'.status = 400
          /\ profiles' = profiles
          /\ filaments' = filaments) ]_vars

\* C2 witness: the delete of a referenced profile was refused while a second,
\* unreferenced profile is stored too.
C2_Witness ==
  /\ last.op = "deleteProfile"
  /\ last.status = 400
  /\ \E f \in filaments : f.profile_id = last.id
  /\ \E p \in profiles : p.id # last.id

\* C3: deleteProfile(id) while no stored filament references id succeeds and
\* removes exactly the profile of that id; every other profile and every
\* filament is unchanged.
C3_DeleteProfileUnusedRemovesOneRow ==
  [][ (/\ last'.op = "deleteProfile"
       /\ last'.id > 0
       /\ ~ \E f \in filaments : f.profile_id = last'.id)
      => (/\ last'.status = 302
          /\ \A p \in profiles : p \in profiles' <=> p.id # last'.id
          /\ profiles' \subseteq profiles
          /\ filaments' = filaments) ]_vars

\* C3 witness: a profile that had been created is gone after its delete, and
\* another profile and a filament are still stored.
C3_Witness ==
  /\ last.op = "deleteProfile"
  /\ last.status = 302
  /\ last.id < nextProfileId
  /\ ~ \E p \in profiles : p.id = last.id
  /\ profiles # {}
  /\ filaments # {}

\* C10: createFilament with a profile_id that matches no stored profile is
\* answered with an error, and the filaments table is unchanged.
C10_CreateFilamentUnknownProfileFails ==
  [][ (/\ last'.op = "createFilament"
       /\ ~ \E p \in profiles :
              /\ last'.form.profile_id \in Numerals
              /\ NumeralValue(last'.form.profile_id) = p.id)
      => (/\ last'.status \in {400, 500}
          /\ filaments' = filaments) ]_vars

\* C10 witness: a named filament was submitted for an id that no profile has,
\* while another profile is stored, and it was turned down.
C10_Witness ==
  /\ last.op = "createFilament"
  /\ last.form.name = "Spool"
  /\ last.form.profile_id = "2"
  /\ ProfileIds = {1}
  /\ last.status = 500
  /\ filaments = {}

\* ------------------------------------------------------- remaining weight
\* The row the last request inserted or addressed.
LastRows == {f \in filaments : f.id = last.id}

\* C4: a createFilament with non-negative weightG and spoolWeightG inserts a
\* row whose remaining_g is weightG - spoolWeightG when weightG >= spoolWeightG
\* and 0 otherwise (720 and 100 give 620).
C4_CreateComputesRemaining ==
  (last.op = "createFilament" /\ last.status = 302) =>
    LET weightG == NumeralValue(last.form.weight_g)
        spoolWeightG == NumeralValue(last.form.spool_weight_g)
    IN (weightG >= 0 /\ spoolWeightG >= 0) =>
         /\ LastRows # {}
         /\ \A f \in LastRows :
              f.remaining_g = IF weightG >= spoolWeightG THEN weightG - spoolWeightG ELSE 0

\* C4 witness: 720 g gross on a 100 g spool was created with 620 g remaining.
C4_Witness ==
  /\ last.op = "createFilament"
  /\ last.status = 302
  /\ last.form.weight_g = "720"
  /\ last.form.spool_weight_g = "100"
  /\ \E f \in LastRows : f.remaining_g = 620

C6_RemainingNeverNegative ==
  \A f \in filaments : f.remaining_g >= 0

\* -------------------------------------------------------------- percentage
\* n is x rounded to the nearest integer, halves up, for x = 100 * r / d, d > 0
IsRounded(n, r, d) == 2 * d * n <= 200 * r + d /\ 200 * r + d < 2 * d * (n + 1)

\* C7 (as claimed): a listed filament with weight_g - spool_weight_g > 0 is
\* shown with round(remaining_g / (weight_g - spool_weight_g) * 100) percent.
C7_PercentIsRoundedRatio ==
  \A i \in DOMAIN view :
    LET f == view[i].filament
        d == f.weight_g - f.spool_weight_g
    IN d > 0 =>
         /\ ~ view[i].percentage.inf
         /\ IsRounded(view[i].percentage.val, f.remaining_g, d)

\* C8 (as claimed): every percentage the listing shows is an integer between
\* 0 and 100.
C8_PercentWithinBounds ==
  \A i \in DOMAIN view :
    /\ ~ view[i].percentage.inf
    /\ view[i].percentage.val >= 0
    /\ view[i].percentage.val <= 100

\* C9 (as claimed): a listed filament with weight_g - spool_weight_g <= 0 is
\* shown with 0 percent, whatever its remaining_g.
C9_PercentZeroWithoutCapacity ==
  \A i \in DOMAIN view :
    LET f == view[i].filament IN
    f.weight_g - f.spool_weight_g <= 0 =>
      (~ view[i].percentage.inf /\ view[i].percentage.val = 0)


\* ---------------------------------------------------------------- validation
\* C11: a createFilament whose name is missing or empty, or whose profile_id
\* is missing, empty, zero or not a number, is answered 400 without a
\* statement being sent to the database (nothing is thrown, the sequence of
\* filaments.id hands out no value, and the answer is the same when the
\* database is unreachable), and the filaments table is unchanged.
C11_CreateFilamentValidates ==
  [][ (/\ last'.op = "createFilament"
       /\ \/ last'.form.name \in {NULL, ""}
          \/ last'.form.profile_id \in {NULL, "", "0"}
          \/ last'.form.profile_id \notin Numerals)
      => (/\ last'.status = 400
          /\ last'.cause = NoError
          /\ filaments' = filaments
          /\ nextFilamentId' = nextFilamentId) ]_vars

\* C11 witness: a named filament with a profile_id that is not a number was
\* turned down with 400 while the database was unreachable and the profile
\* it could have named is stored.
C11_Witness ==
  /\ last.op = "createFilament"
  /\ last.status = 400
  /\ last.form.name = "Spool"
  /\ last.form.profile_id = "x"
  /\ ~ dbUp
  /\ ProfileIds = {1}
  /\ filaments = {}

\* A submitted number that is missing, or is zero or negative / is positive.
MissingOrNonPositive(s) == s \in {NULL, ""} \/ (s \in Numerals /\ NumeralValue(s) <= 0)
Positive(s) == s \in Numerals /\ NumeralValue(s) > 0

\* C12 (as claimed): a createProfile whose vendor or material is missing or
\* empty, or whose density or diameter is missing, zero or negative, is
\* answered 400 and inserts nothing; one with a vendor, a material and a
\* positive density and diameter inserts exactly one profile, which holds the
\* submitted values.
C12_CreateProfileValidates ==
  [][ last'.op = "createProfile" =>
        LET form == last'.form IN
        /\ (\/ form.vendor \in {NULL, ""}
            \/ form.material \in {NULL, ""}
            \/ MissingOrNonPositive(form.density)
            \/ MissingOrNonPositive(form.diameter))
           => (last'.status = 400 /\ profiles' = profiles)
        /\ (/\ form.vendor \notin {NULL, ""}
            /\ form.material \notin {NULL, ""}
            /\ Positive(form.density)
            /\ Positive(form.diameter))
           => (/\ last'.status = 302
               /\ last'.id \notin ProfileIds
               /\ profiles' = profiles \cup
                    {[id |-> last'.id, vendor |-> form.vendor, material |-> form.material,
                      density |-> 100 * NumeralValue(form.density),
                      diameter |-> 100 * NumeralValue(form.diameter)]}) ]_vars

\* ------------------------------------------------------------ unknown ids
\* C13 (as claimed): an updateProfile on an id that no stored profile has is
\* answered 404 and leaves the profiles table as it was.
C13_UpdateProfileUnknownIdNotFound ==
  [][ (/\ last'.op = "updateProfile"
       /\ last'.id > 0
       /\ last'.id \notin ProfileIds)
      => (last'.status = 404 /\ profiles' = profiles) ]_vars

\* ------------------------------------------------------------ profile edits
\* C14 (as claimed): an updateProfile on a stored profile leaves every field
\* that was not submitted with its stored value, and leaves the other
\* profiles alone.
C14_UpdateProfileIsPartial ==
  [][ (last'.op = "updateProfile" /\ last'.id > 0) =>
        LET form == last'.form IN
        \A p \in profiles :
          IF p.id # last'.id THEN p \in profiles'
          ELSE \E q \in profiles' :
                 /\ q.id = p.id
                 /\ (form.vendor = NULL => q.vendor = p.vendor)
                 /\ (form.material = NULL => q.material = p.material)
                 /\ (form.density = NULL => q.density = p.density)
                 /\ (form.diameter = NULL => q.diameter = p.diameter) ]_vars

\* C14 (amended): an updateProfile that is answered with the redirect has
\* replaced all four fields of the profile of that id: vendor and material by
\* the submitted text, density and diameter by the submitted number, and by
\* 1.24 and 1.75 where none was submitted (or an empty, zero or non-numeric
\* one); the other profiles, and the set of ids, are unchanged.
C14_UpdateProfileReplacesAllFields ==
  [][ (last'.op = "updateProfile" /\ last'.status = 302) =>
        LET form == last'.form
            number(s, d) == IF s \in Numerals /\ NumeralValue(s) # 0
                            THEN 100 * NumeralValue(s) ELSE d
        IN /\ {q.id : q \in profiles'} = ProfileIds
           /\ \A p \in profiles : p.id # last'.id => p \in profiles'
           /\ \A q \in profiles' :
                q.id = last'.id =>
                  /\ q.vendor = form.vendor
                  /\ q.material = form.material
                  /\ q.density = number(form.density, 124)
                  /\ q.diameter = number(form.diameter, 175) ]_vars

\* C14 witness: an edit submitted without a density was answered with the
\* redirect and the profile now has the default density next to the
\* submitted diameter, while another profile is stored.
C14_Witness ==
  /\ last.op = "updateProfile"
  /\ last.status = 302
  /\ last.form.density = NULL
  /\ \E q \in profiles :
       /\ q.id = last.id
       /\ q.density = 124
       /\ q.diameter = 300
  /\ \E p \in profiles : p.id # last.id

\* C15 (as claimed): an updateFilament with a form that passes validation, on
\* an id that no stored filament has, is answered 404, not with the redirect
\* that reports success, and leaves the filaments table as it was.
C15_UpdateFilamentUnknownIdNotFound ==
  [][ (/\ last'.op = "updateFilament"
       /\ last'.id > 0
       /\ last'.id \notin FilamentIds
       /\ last'.form.name \notin {NULL, ""}
       /\ Positive(last'.form.profile_id))
      => (last'.status = 404 /\ filaments' = filaments) ]_vars

\* C16 (as claimed): a deleteFilament on the id of a stored filament removes
\* that filament and no other, whatever its fields hold; on an id that no
\* stored filament has it is answered 404.
C16_DeleteFilamentRemovesOrNotFound ==
  [][ (last'.op = "deleteFilament" /\ last'.id > 0) =>
        IF last'.id \in FilamentIds
        THEN /\ last'.status = 302
             /\ filaments' = {f \in filaments : f.id # last'.id}
        ELSE /\ last'.status = 404
             /\ filaments' = filaments ]_vars

\* ---------------------------------------------------------- store failures
WriteOps == {"createProfile", "updateProfile", "deleteProfile",
             "createFilament", "updateFilament", "deleteFilament"}

\* C17 (as claimed): whenever the database throws while one of the six write
\* handlers serves a request, the response is a 500 whose text contains the
\* message of the error thrown, and neither table is changed.
C17_StoreFailureSurfaced ==
  [][ (last'.op \in WriteOps /\ last'.cause # NoError) =>
        /\ last'.status = 500
        /\ \E i \in DOMAIN last'.text : last'.text[i] = last'.cause
        /\ profiles' = profiles
        /\ filaments' = filaments ]_vars

\* C18 (as claimed): an updateFilament submitted without a name or without a
\* profile_id, and an updateProfile submitted without a vendor or without a
\* material, is answered 400 and leaves its table as it was.
C18_UpdateRequiresFields ==
  [][ /\ (/\ last'.op = "updateFilament"
          /\ (last'.form.name = NULL \/ last'.form.profile_id = NULL))
         => (last'.status = 400 /\ filaments' = filaments)
      /\ (/\ last'.op = "updateProfile"
          /\ (last'.form.vendor = NULL \/ last'.form.material = NULL))
         => (last'.status = 400 /\ profiles' = profiles) ]_vars

\* ------------------------------------------------------------------ listing
\* C19: a listing served while the database answers shows each stored
\* filament exactly once, next to the stored profile that its profile_id
\* names, newest created_at first; when the request names a profile id, it
\* shows exactly the filaments of that profile_id, in the same way.
C19_ListingIsOrderedJoin ==
  (last.op = "listFilaments" /\ last.cause = NoError) =>
    LET shown == {f \in filaments : last.id # 0 => f.profile_id = last.id} IN
    /\ Len(view) = Cardinality(shown)
    /\ \A f \in shown : \E i \in DOMAIN view : view[i].filament = f
    /\ \A i \in DOMAIN view :
         /\ view[i].filament \in shown
         /\ view[i].profile \in profiles
         /\ view[i].profile.id = view[i].filament.profile_id
    /\ \A i, j \in DOMAIN view :
         i < j => view[i].filament.created_at >= view[j].filament.created_at

\* C19 witness: of three stored filaments, the listing filtered on profile 1
\* shows the two of that profile, the newer one first, and not the third.
C19_Witness ==
  /\ last.op = "listFilaments"
  /\ last.id = 1
  /\ Cardinality(filaments) = 3
  /\ Len(view) = 2
  /\ view[1].filament.created_at > view[2].filament.created_at
  /\ view[1].profile.id = 1
  /\ \E f \in filaments : f.profile_id = 2

\* C20: a listing requested while the database does not answer (a step that
\* starts and ends without a database and ends with the listing as the last
\* request) is served (200) with no filament in it, where the error is
\* written to the console and not to the response, and changes neither table
\* nor sequence.
C20_ListingDegradesToEmpty ==
  [][ (last'.op = "listFilaments" /\ ~ dbUp /\ ~ dbUp') =>
        /\ view' = <<>>
        /\ last'.status = 200
        /\ last'.cause = ConnectionLost
        /\ profiles' = profiles
        /\ filaments' = filaments
        /\ nextProfileId' = nextProfileId
        /\ nextFilamentId' = nextFilamentId ]_vars

\* C20 witness: a filament is stored, the database is unreachable, and the
\* listing was served empty.
C20_Witness ==
  /\ last.op = "listFilaments"
  /\ last.status = 200
  /\ last.cause = ConnectionLost
  /\ ~ dbUp
  /\ filaments # {}
  /\ view = <<>>

\* --------------------------------------------------------------- round trips
\* The entries a listing without a filter can return.
Listed == UNION { {seq[i] : i \in DOMAIN seq} : seq \in fetchFilaments(0) }

\* A submitted text / number is what the row holds (a field left out of the
\* form is not looked at).
HoldsText(s, v) == s \notin {NULL, ""} => v = s
HoldsNumber(s, v, unit) == s \in Numerals => v = unit * NumeralValue(s)

\* C21: after a createFilament that was answered with the redirect, the
\* listing holds every entry it held before, unchanged, and exactly one more;
\* that entry has the submitted name, profile, color, price, weights and
\* temperatures, and a created_at that is a time of the database clock.
C21_CreateThenListRoundTrip ==
  [][ (last'.op = "createFilament" /\ last'.status = 302) =>
        LET form == last'.form
            new == Listed' \ Listed
        IN /\ Listed \subseteq Listed'
           /\ Cardinality(new) = 1
           /\ \A e \in new :
                /\ e.filament.id = last'.id
                /\ e.profile.id = e.filament.profile_id
                /\ HoldsText(form.name, e.filament.name)
                /\ HoldsNumber(form.profile_id, e.filament.profile_id, 1)
                /\ HoldsText(form.color_hex, e.filament.color_hex)
                /\ HoldsNumber(form.price_eur, e.filament.price_eur, 100)
                /\ HoldsNumber(form.weight_g, e.filament.weight_g, 1)
                /\ HoldsNumber(form.spool_weight_g, e.filament.spool_weight_g, 1)
                /\ HoldsNumber(form.print_temp_min, e.filament.print_temp_min, 1)
                /\ HoldsNumber(form.print_temp_max, e.filament.print_temp_max, 1)
                /\ e.filament.created_at \in 0 .. clock' ]_vars

\* C21 witness: the form with every field filled in was created next to an
\* older filament, and its row holds the submitted color, price and
\* temperatures.
C21_Witness ==
  /\ last.op = "createFilament"
  /\ last.status = 302
  /\ last.form.color_hex = "#ff6600"
  /\ \E f \in filaments : f.id # last.id
  /\ \E e \in Listed :
       /\ e.filament.id = last.id
       /\ e.filament.color_hex = "#ff6600"
       /\ e.filament.price_eur = 200
       /\ e.filament.print_temp_max = 200

\* C22 (as claimed): a listing that follows a listing with the same filter,
\* with no other request in between, shows the same entries in the same
\* order, and changes neither table nor sequence.
C22_ListingIsIdempotent ==
  [][ (/\ last.op = "listFilaments"
       /\ last'.op = "listFilaments"
       /\ last'.id = last.id)
      => (/\ view' = view
          /\ profiles' = profiles
          /\ filaments' = filaments
          /\ nextProfileId' = nextProfileId
          /\ nextFilamentId' = nextFilamentId) ]_vars

\* ------------------------------------------------------------------ frames
\* C23: no step changes the created_at of a stored filament, and an
\* updateFilament leaves the ids and their created_at exactly as they were,
\* so no sequence of edits changes the created_at or the id of a filament.
C23_CreatedAtImmutable ==
  [][ /\ \A f \in filaments : \A g \in filaments' :
           g.id = f.id => g.created_at = f.created_at
      /\ last'.op = "updateFilament" =>
           {<<g.id, g.created_at>> : g \in filaments'}
             = {<<f.id, f.created_at>> : f \in filaments} ]_vars

\* C23 witness: an edit has rewritten the fields of a filament (it holds the
\* remaining_g and the profile of the edit form), and the filament still has
\* the created_at of its insert, the first time of the clock.
C23_Witness ==
  /\ last.op = "updateFilament"
  /\ last.status = 302
  /\ last.form.profile_id = "2"
  /\ \E f \in filaments :
       /\ f.id = last.id
       /\ f.remaining_g = 620
       /\ f.profile_id = 2
       /\ f.created_at = 0

\* ------------------------------------------------------------------ creates
\* A row without the columns the database fills in.
Submitted(row) == [k \in (DOMAIN row) \ {"id", "created_at"} |-> row[k]]

\* C24: no two rows of a table share an id; and a createFilament
\* (createProfile) that succeeds right after the same request succeeded
\* leaves the row of the first request in place and adds a second row, with
\* another id and the same submitted fields.
C24_CreateIsNotIdempotent ==
  [][ /\ \A f, g \in filaments' : f.id = g.id => f = g
      /\ \A p, q \in profiles' : p.id = q.id => p = q
      /\ (/\ last.op = "createFilament" /\ last.status = 302
          /\ last'.op = "createFilament" /\ last'.status = 302
          /\ last'.form = last.form)
         => (/\ last'.id # last.id
             /\ filaments \subseteq filaments'
             /\ Cardinality(filaments') = Cardinality(filaments) + 1
             /\ \E f \in filaments : \E g \in filaments' \ filaments :
                  /\ f.id = last.id
                  /\ g.id = last'.id
                  /\ Submitted(g) = Submitted(f))
      /\ (/\ last.op = "createProfile" /\ last.status = 302
          /\ last'.op = "createProfile" /\ last'.status = 302
          /\ last'.form = last.form)
         => (/\ last'.id # last.id
             /\ profiles \subseteq profiles'
             /\ Cardinality(profiles') = Cardinality(profiles) + 1
             /\ \E p \in profiles : \E q \in profiles' \ profiles :
                  /\ p.id = last.id
                  /\ q.id = last'.id
                  /\ Submitted(q) = Submitted(p)) ]_vars

\* C24 witness: the form with every field filled in was created twice in a
\* row, and two filaments with its color and different ids are stored, at
\* the same time of the clock.
C24_Witness ==
  /\ last.op = "createFilament"
  /\ last.status = 302
  /\ last.id = 2
  /\ \E f, g \in filaments :
       /\ f.id = 1
       /\ g.id = 2
       /\ f.color_hex = "#ff6600"
       /\ Submitted(f) = Submitted(g)
       /\ f.created_at = g.created_at

\* --------------------------------------------------------------- concurrency
\* The filament / the profile holds what an edit form submits.
HoldsEdit(f, form) ==
  /\ f.name = form.name
  /\ f.profile_id = NumeralValue(form.profile_id)
  /\ f.weight_g = NumeralValue(form.weight_g)
  /\ f.spool_weight_g = NumeralValue(form.spool_weight_g)
  /\ f.remaining_g = NumeralValue(form.remaining_g)

HoldsProfileEdit(p, form) ==
  /\ p.vendor = form.vendor
  /\ p.material = form.material
  /\ p.density = 100 * NumeralValue(form.density)
  /\ p.diameter = 100 * NumeralValue(form.diameter)

\* The requests on record that were answered with the redirect, for a handler
\* and a row id.
Succeeded(op, id) ==
  {s \in Slots : /\ inflight[s].pc = "done"
                 /\ inflight[s].op = op
                 /\ inflight[s].id = id
                 /\ inflight[s].status = 302}

\* C25: while updateFilament (updateProfile) requests that were served side
\* by side on one record are on record as succeeded, the record holds all
\* fields of the form of one of them, and that one is the request that was
\* answered last.
C25_LastWriterWins ==
  /\ \A f \in filaments :
       /\ Succeeded("updateFilament", f.id) # {} =>
            \E s \in Succeeded("updateFilament", f.id) : HoldsEdit(f, inflight[s].form)
       /\ (last.op = "updateFilament" /\ last.status = 302 /\ last.id = f.id) =>
            HoldsEdit(f, last.form)
  /\ \A p \in profiles :
       /\ Succeeded("updateProfile", p.id) # {} =>
            \E s \in Succeeded("updateProfile", p.id) : HoldsProfileEdit(p, inflight[s].form)
       /\ (last.op = "updateProfile" /\ last.status = 302 /\ last.id = p.id) =>
            HoldsProfileEdit(p, last.form)

\* C25 witness: two edits of filament 1 with different forms were in service
\* at the same time and both succeeded; the one accepted first was answered
\* last, and the filament holds its form.
C25_Witness ==
  /\ inflight[1] = Done(Exchange("updateFilament", 1, 302, EditA, "/"))
  /\ inflight[2] = Done(Exchange("updateFilament", 1, 302, EditB, "/"))
  /\ last.op = "updateFilament"
  /\ last.form = EditA
  /\ \E f \in filaments : f.id = 1 /\ HoldsEdit(f, EditA) /\ ~ HoldsEdit(f, EditB)

\* ----------------------------------------------------------- inverted weights
\* C26: a createFilament on a stored profile whose spool_weight_g is greater
\* than its weight_g is answered with the redirect and inserts a row with
\* the submitted weights and remaining_g = 0; and a filament whose
\* spool_weight_g is greater than its weight_g is listed with 0 percent.
C26_InvertedWeightsAccepted ==
  /\ (/\ last.op = "createFilament"
      /\ NumeralValue(last.form.profile_id) \in ProfileIds
      /\ NumeralValue(last.form.spool_weight_g) > NumeralValue(last.form.weight_g))
     => (/\ last.status = 302
         /\ \E f \in filaments :
              /\ f.id = last.id
              /\ f.weight_g = NumeralValue(last.form.weight_g)
              /\ f.spool_weight_g = NumeralValue(last.form.spool_weight_g)
              /\ f.remaining_g = 0)
  /\ \A i \in DOMAIN view :
       view[i].filament.spool_weight_g > view[i].filament.weight_g =>
         (~ view[i].percentage.inf /\ view[i].percentage.val = 0)

\* C26 witness: a filament of 100 g on a spool of 200 g is stored with
\* nothing remaining and is listed with 0 percent.
C26_Witness ==
  /\ last.op = "listFilaments"
  /\ \E i \in DOMAIN view :
       /\ view[i].filament.weight_g = 100
       /\ view[i].filament.spool_weight_g = 200
       /\ view[i].filament.remaining_g = 0
       /\ view[i].percentage = Finite(0)

\* ---------------------------------------------------------- profile listing
\* C27: the profile listing shows every stored profile exactly once, each
\* with the number of stored filaments whose profile_id is its id (0 for a
\* profile without filaments), and shows the delete button exactly for the
\* profiles whose number is 0.
C27_ProfileListingCounts ==
  (last.op = "listProfiles" /\ last.status = 200) =>
    /\ Len(view) = Cardinality(profiles)
    /\ \A p \in profiles : \E i \in DOMAIN view : view[i].profiles = p
    /\ \A i \in DOMAIN view :
         /\ view[i].filamentCount =
              Cardinality({f \in filaments : f.profile_id = view[i].profiles.id})
         /\ view[i].deleteButton <=> view[i].filamentCount = 0

\* C27 witness: the listing shows a profile with two filaments and no delete
\* button, and a profile without filaments with one.
C27_Witness ==
  /\ last.op = "listProfiles"
  /\ \E i, j \in DOMAIN view :
       /\ view[i].filamentCount = 2
       /\ ~ view[i].deleteButton
       /\ view[j].filamentCount = 0
       /\ view[j].deleteButton

\* C28: with deleteProfile served as two statements (the count, then the
\* delete) side by side with createFilament and updateFilament requests, no
\* filament ever references a profile that is not stored, and of a
\* deleteProfile(p) and a createFilament or updateFilament with profile_id p
\* that were in service at the same time, with no third request among them,
\* at most one is answered with the redirect.
C28_DeleteProfileRaceIsSafe ==
  /\ \A f \in filaments : \E p \in profiles : p.id = f.profile_id
  /\ \A s, t \in Slots :
       (/\ \A u \in Slots \ {s, t} : inflight[u].pc = "idle"
        /\ inflight[s].pc = "done"
        /\ inflight[s].op = "deleteProfile"
        /\ inflight[t].pc = "done"
        /\ inflight[t].op \in {"createFilament", "updateFilament"}
        /\ NumeralValue(inflight[t].form.profile_id) = inflight[s].id)
       => ~ (inflight[s].status = 302 /\ inflight[t].status = 302)

\* C28 witness: deleteProfile(1) counted no filament, a createFilament on
\* profile 1 was then inserted, and the delete was refused by the foreign
\* key; the profile and the filament are stored.
C28_Witness ==
  /\ \E s, t \in Slots :
       /\ inflight[s].pc = "done"
       /\ inflight[s].op = "deleteProfile"
       /\ inflight[s].id = 1
       /\ inflight[s].status = 500
       /\ inflight[t].pc = "done"
       /\ inflight[t].op = "createFilament"
       /\ inflight[t].status = 302
  /\ last.op = "deleteProfile"
  /\ last.cause = ForeignKeyViolation
  /\ 1 \in ProfileIds
  /\ \E f \in filaments : f.profile_id = 1

\* remaining_g as the edit form submitted it: its value, 0 when the field is
\* missing or does not hold a number
SubmittedRemaining(form) ==
  IF form.remaining_g \in Numerals THEN NumeralValue(form.remaining_g) ELSE 0

Others(rows, id) == {f \in rows : f.id # id}

\* C30: createFilament, updateFilament and deleteFilament leave the profiles
\* table as it was; updateFilament(id) and deleteFilament(id) leave every
\* filament whose id is not id as it was, adding and removing none;
\* createProfile and updateProfile leave the filaments table as it was.
C30_WritesKeepTheirFrame ==
  [][/\ last'.op \in {"createFilament", "updateFilament", "deleteFilament"} =>
          profiles' = profiles
     /\ last'.op \in {"updateFilament", "deleteFilament"} =>
          Others(filaments', last'.id) = Others(filaments, last'.id)
     /\ last'.op \in {"createProfile", "updateProfile"} =>
          filaments' = filaments]_vars

\* C30 witness: deleteFilament(1) has removed filament 1 while filament 2 and
\* two profiles are stored.
C30_Witness ==
  /\ last.op = "deleteFilament"
  /\ last.id = 1
  /\ last.status = 302
  /\ nextFilamentId > 2
  /\ FilamentIds = {2}
  /\ ProfileIds = {1, 2}
====
